---- MODULE Spec2Model ----
(***************************************************************************)
(* Model of SaoKit (src/src/index.ts): a WebSocket wrapper with a          *)
(* promise-based connect(), a connect timeout, fixed-interval automatic    *)
(* reconnection and a heartbeat interval timer.                            *)
(*                                                                         *)
(* Transport handles live in slots.  connect() takes the lowest slot that  *)
(* is free; a slot is free again once its handle has delivered its close   *)
(* notification, the manager no longer references it and no timer created  *)
(* for it is armed.                                                        *)
(*                                                                         *)
(* Timers: a setTimeout (connect timeout, reconnect delay) is armed and    *)
(* fires at some later moment, whatever its delay; timers armed with the   *)
(* same delay fire in the order they were armed.  The heartbeat            *)
(* setInterval is measured in periods: Tick lets one heartbeat period      *)
(* pass, which makes every armed interval timer due, and no further        *)
(* period passes before each due timer has run its callback.               *)
(*                                                                         *)
(* Listeners are opaque callbacks that either return or throw.  Spec is    *)
(* the manager with no listener registered; ListenerSpec registers and     *)
(* removes listeners around the same handlers; OptionsSpec constructs      *)
(* managers from caller-supplied option records.                           *)
(***************************************************************************)
EXTENDS Integers, Sequences, FiniteSets, TLC

\* ---------------------------------------------------------------- bounds
\* Number of transport handles (and of their timers) that exist at a time.
MaxSockets == 2
\* Largest maxReconnectAttempts option explored (0 = unlimited).
MaxAttempts == 1
\* Largest reconnectAttempts, and largest number of pending reconnect
\* timers, explored.
MaxReconnects == 2
\* Largest number of listener registrations held at a time.
MaxListeners == 2

\* ---------------------------------------------------------------- state
VARIABLES
    supplied,           \* the options record the caller gave the constructor
    options,            \* this.options, the merged configuration
    listeners,          \* this.listeners: event kind -> callbacks, in order
    urlValid,           \* whether new WebSocket(this.url) succeeds
    ws,                 \* this.ws: 0 = null, else a slot
    sockets,            \* slot -> transport handle and its connect() promise
    reconnectAttempts,  \* this.reconnectAttempts
    heartbeatTimer,     \* this.heartbeatTimer: 0 = null, else a timer id
    isManualClose,      \* this.isManualClose
    hbTimers,           \* setInterval timers: id -> "none", "armed" or "due"
    timeouts,           \* armed connect timeouts (slots), in arming order
    reconnectTimers,    \* number of pending reconnect setTimeouts
    emitted,            \* events dispatched by the last step, in order
    invoked,            \* listener invocations of the last step, in order
    sent,               \* payloads handed to the transport by the last step
    last,               \* the last step: operation, slot and result
    reconnectsSinceOpen,\* observer: Reconnect events since the last Open
    openAge,            \* observer: 1 once this.ws has been open for a period
    hbCount             \* observer: heartbeats sent this period (2 = more)

vars == <<supplied, options, listeners, urlValid, ws, sockets,
          reconnectAttempts, heartbeatTimer, isManualClose, hbTimers, timeouts,
          reconnectTimers, emitted, invoked, sent, last, reconnectsSinceOpen,
          openAge, hbCount>>

SocketIds == 1..MaxSockets

ReadyStates == {"CONNECTING", "OPEN", "CLOSING", "CLOSED"}

Data == {"d1"}

\* heartbeatMessage: a string, a function ("fn") or a falsy value ("").
HeartbeatMessages == {"ping"}

\* a slot that holds no handle
Absent ==
    [readyState |-> "NONE", outcome |-> "none", opened |-> FALSE,
     closeDelivered |-> TRUE, manual |-> FALSE]

\* new WebSocket(url) and new Promise(...)
NewSocket ==
    [readyState |-> "CONNECTING", outcome |-> "pending", opened |-> FALSE,
     closeDelivered |-> FALSE, manual |-> FALSE]

\* the event kinds of initEventListeners()
Kinds == {"open", "close", "error", "message", "reconnect"}

\* listener functions a caller registers; "bad" throws when invoked
Callbacks == {"cb1", "cb2", "bad"}

Throws(cb) == cb = "bad"

SeqRemove(q, x) == SelectSeq(q, LAMBDA y : y # x)

InSeq(q, x) == \E n \in 1..Len(q) : q[n] = x

\* ------------------------------------------------------- manager snapshot
\* The handlers below are written as functions from a snapshot of the
\* manager (and its timers and transports) to the snapshot they leave.
Cur ==
    [ws |-> ws, sockets |-> sockets, reconnectAttempts |-> reconnectAttempts,
     heartbeatTimer |-> heartbeatTimer, isManualClose |-> isManualClose,
     hbTimers |-> hbTimers, timeouts |-> timeouts,
     reconnectTimers |-> reconnectTimers, listeners |-> listeners,
     emitted |-> <<>>, invoked |-> <<>>, thrown |-> FALSE,
     sent |-> <<>>, result |-> "ok", arg |-> <<>>]

Event(type, attempts) == [type |-> type, attempts |-> attempts]

\* index of the first listener of ls that throws, 0 if none does
FirstThrower(ls) ==
    IF \E n \in 1..Len(ls) : Throws(ls[n])
    THEN CHOOSE n \in 1..Len(ls) :
             Throws(ls[n]) /\ \A m \in 1..(n - 1) : ~Throws(ls[m])
    ELSE 0

\* emit(event, data): forEach calls the listeners in array order; a
\* listener that throws ends the loop and the exception leaves emit().
Emit(s, type, attempts) ==
    LET ls == s.listeners[type]
        t == FirstThrower(ls)
        ran == IF t = 0 THEN Len(ls) ELSE t
    IN [s EXCEPT !.emitted = Append(@, Event(type, attempts)),
                 !.invoked = @ \o [n \in 1..ran |-> [kind |-> type, cb |-> ls[n]]],
                 !.thrown = t # 0,
                 !.result = IF t # 0 THEN "threw" ELSE @]

\* a notification handler starts with no exception in flight
Enter(s) == [s EXCEPT !.thrown = FALSE]

\* Promise resolve(): only a pending promise changes state.
Resolve(s, i) ==
    IF s.sockets[i].outcome = "pending"
    THEN [s EXCEPT !.sockets[i].outcome = "resolved", !.result = "resolved"]
    ELSE s

RejectOverwrites(s, i, err) ==
    [s EXCEPT !.sockets[i].outcome = "rejected", !.result = err]

\* Promise reject(error): only a pending promise changes state.
Reject(s, i, err) ==
    IF s.sockets[i].outcome = "pending"
    THEN [s EXCEPT !.sockets[i].outcome = "rejected", !.result = err]
    ELSE s

\* clearTimeout(timeout) for the timeout of the connect() call of slot i
ClearTimeout(s, i) == [s EXCEPT !.timeouts = SeqRemove(@, i)]

\* WebSocket.close() of the transport: a handle that is not yet closed
\* starts closing; its close notification is delivered later.
WsClose(s, i) ==
    IF s.sockets[i].readyState \in {"CONNECTING", "OPEN"}
    THEN [s EXCEPT !.sockets[i].readyState = "CLOSING"]
    ELSE s

\* stopHeartbeat()
StopHeartbeat(s) ==
    IF s.heartbeatTimer # 0
    THEN [s EXCEPT !.hbTimers[s.heartbeatTimer] = "none", !.heartbeatTimer = 0]
    ELSE s

\* startHeartbeat() called from the open handler of slot i; the new
\* interval timer is identified by i.
StartHeartbeat(s, i) ==
    IF options.heartbeatInterval > 0
    THEN [s EXCEPT !.hbTimers[i] = "armed", !.heartbeatTimer = i]
    ELSE s

AttemptReconnectOffByOne(s) ==
    IF options.maxReconnectAttempts = 0
       \/ s.reconnectAttempts <= options.maxReconnectAttempts
    THEN LET s1 == [s EXCEPT !.reconnectAttempts = @ + 1]
             s2 == Emit(s1, "reconnect", s1.reconnectAttempts)
         IN IF s2.thrown THEN s2 ELSE [s2 EXCEPT !.reconnectTimers = @ + 1]
    ELSE s

\* attemptReconnect()
AttemptReconnect(s) ==
    IF options.maxReconnectAttempts = 0
       \/ s.reconnectAttempts < options.maxReconnectAttempts
    THEN LET s1 == [s EXCEPT !.reconnectAttempts = @ + 1]
             s2 == Emit(s1, "reconnect", s1.reconnectAttempts)
         IN IF s2.thrown THEN s2 ELSE [s2 EXCEPT !.reconnectTimers = @ + 1]
    ELSE s

OnOpenNoReset(s, i) ==
    LET s1 == ClearTimeout(Enter(s), i)
        s3 == StartHeartbeat(s1, i)
        s4 == Emit(s3, "open", 0)
    IN IF s4.thrown THEN s4 ELSE Resolve(s4, i)

\* ws.onopen of the connect() call of slot i
OnOpen(s, i) ==
    LET s1 == ClearTimeout(Enter(s), i)
        s2 == [s1 EXCEPT !.reconnectAttempts = 0]
        s3 == StartHeartbeat(s2, i)
        s4 == Emit(s3, "open", 0)
    IN IF s4.thrown THEN s4 ELSE Resolve(s4, i)

OnMessageResetsAttempts(s, i) ==
    Emit([Enter(s) EXCEPT !.reconnectAttempts = 0], "message", 0)

\* ws.onmessage of the connect() call of slot i
OnMessage(s, i) == Emit(Enter(s), "message", 0)

OnCloseIgnoresAutoReconnect(s, i) ==
    LET s1 == ClearTimeout(Enter(s), i)
        s2 == StopHeartbeat(s1)
        s3 == Emit(s2, "close", 0)
    IN IF s3.thrown THEN s3
       ELSE IF ~s3.isManualClose
       THEN AttemptReconnect(s3)
       ELSE s3

\* ws.onclose of the connect() call of slot i
OnClose(s, i) ==
    LET s1 == ClearTimeout(Enter(s), i)
        s2 == StopHeartbeat(s1)
        s3 == Emit(s2, "close", 0)
    IN IF s3.thrown THEN s3
       ELSE IF ~s3.isManualClose /\ options.autoReconnect
       THEN AttemptReconnect(s3)
       ELSE s3

\* ws.onerror of the connect() call of slot i
OnError(s, i) ==
    LET s1 == ClearTimeout(Enter(s), i)
        s2 == Emit(s1, "error", 0)
    IN IF s2.thrown THEN s2 ELSE Reject(s2, i, "error")

\* the setTimeout callback armed by the connect() call of slot i; it
\* reads this.ws
TimeoutCallback(s, i) ==
    IF s.ws # 0 /\ s.sockets[s.ws].readyState = "CONNECTING"
    THEN Reject(WsClose(s, s.ws), i, "timeout")
    ELSE [s EXCEPT !.result = "ignored"]

\* A slot is free when its handle (if any) has delivered its close
\* notification and no timer made for it is armed.
Free(s, i) ==
    /\ s.sockets[i].closeDelivered
    /\ s.hbTimers[i] = "none"
    /\ ~InSeq(s.timeouts, i)

HasFree(s) == \E i \in SocketIds : Free(s, i)

FreeSlot(s) ==
    CHOOSE i \in SocketIds : Free(s, i) /\ \A j \in 1..(i - 1) : ~Free(s, j)

ConnectBodyResetsFlagFirst(s) ==
    IF urlValid
    THEN LET i == FreeSlot(s)
         IN [s EXCEPT !.sockets[i] = NewSocket,
                      !.ws = i,
                      !.isManualClose = FALSE,
                      !.timeouts = Append(@, i)]
    ELSE [s EXCEPT !.isManualClose = FALSE, !.result = "construction"]

\* connect()
ConnectBody(s) ==
    IF urlValid
    THEN LET i == FreeSlot(s)
         IN [s EXCEPT !.sockets[i] = NewSocket,
                      !.ws = i,
                      !.isManualClose = FALSE,
                      !.timeouts = Append(@, i)]
    ELSE [s EXCEPT !.result = "construction"]

SendBodyAlsoConnecting(s, data) ==
    IF s.ws # 0 /\ s.sockets[s.ws].readyState \in {"OPEN", "CONNECTING"}
    THEN [s EXCEPT !.sent = Append(@, [to |-> s.ws, data |-> data]),
                   !.result = "sent"]
    ELSE [s EXCEPT !.result = "NotConnected"]

\* send(data)
SendBody(s, data) ==
    IF s.ws # 0 /\ s.sockets[s.ws].readyState = "OPEN"
    THEN [s EXCEPT !.sent = Append(@, [to |-> s.ws, data |-> data]),
                   !.result = "sent"]
    ELSE [s EXCEPT !.result = "NotConnected"]

\* close(code, reason)
CloseBody(s) ==
    LET s1 == [s EXCEPT !.isManualClose = TRUE]
        s2 == StopHeartbeat(s1)
    IN IF s2.ws # 0
       THEN WsClose([s2 EXCEPT !.sockets[s2.ws].manual =
                                   ~s2.sockets[s2.ws].closeDelivered], s2.ws)
       ELSE s2

\* on(event, listener)
OnBody(s, kind, cb) == [s EXCEPT !.listeners[kind] = Append(@, cb)]

\* listeners.indexOf(listener), counted from 1; 0 when it is not there
IndexOf(q, x) ==
    IF InSeq(q, x)
    THEN CHOOSE n \in 1..Len(q) : q[n] = x /\ \A m \in 1..(n - 1) : q[m] # x
    ELSE 0

\* listeners.splice(index, 1)
Splice(q, n) == SubSeq(q, 1, n - 1) \o SubSeq(q, n + 1, Len(q))

\* remove(event, listener)
RemoveBody(s, kind, cb) ==
    LET n == IndexOf(s.listeners[kind], cb)
    IN IF n > 0
       THEN [s EXCEPT !.listeners[kind] = Splice(s.listeners[kind], n)]
       ELSE s

\* the payload the heartbeat callback computes
HeartbeatPayload ==
    IF options.heartbeatMessage = "fn" THEN "generated"
    ELSE IF options.heartbeatMessage # "" THEN options.heartbeatMessage
    ELSE "json-ping"

HeartbeatCallbackUnguarded(s, k) ==
    IF s.ws # 0
    THEN [s EXCEPT !.sent = Append(@, [to |-> s.ws, data |-> HeartbeatPayload]),
                   !.result = "sent"]
    ELSE s

\* the setInterval callback of heartbeat timer k
HeartbeatCallback(s, k) ==
    IF s.ws # 0 /\ s.sockets[s.ws].readyState = "OPEN"
    THEN SendBody(s, HeartbeatPayload)
    ELSE [s EXCEPT !.result = "skipped"]

\* ------------------------------------------------------------- observers
IsOpen(ss, w) == w # 0 /\ ss[w].readyState = "OPEN"

CountType(evs, type) == Cardinality({n \in 1..Len(evs) : evs[n].type = type})

\* A handle that has delivered its close notification and that this.ws
\* no longer references is forgotten.
Forget(s) ==
    [s EXCEPT !.sockets =
        [i \in SocketIds |->
            IF s.sockets[i].closeDelivered /\ s.ws # i
            THEN Absent ELSE s.sockets[i]]]

\* Writes the snapshot s0 back to the variables and updates the observers;
\* op and id name the step.
Commit(s0, op, id) ==
    LET s == Forget(s0)
        reset == ~IsOpen(s.sockets, s.ws) \/ (op = "open" /\ id = s.ws)
    IN
    /\ ws' = s.ws
    /\ sockets' = s.sockets
    /\ reconnectAttempts' = s.reconnectAttempts
    /\ heartbeatTimer' = s.heartbeatTimer
    /\ isManualClose' = s.isManualClose
    /\ hbTimers' = s.hbTimers
    /\ timeouts' = s.timeouts
    /\ reconnectTimers' = s.reconnectTimers
    /\ listeners' = s.listeners
    /\ emitted' = s.emitted
    /\ invoked' = s.invoked
    /\ sent' = s.sent
    /\ last' = [op |-> op, id |-> id, result |-> s.result, arg |-> s.arg]
    /\ reconnectsSinceOpen' =
          IF CountType(s.emitted, "open") > 0 THEN 0
          ELSE reconnectsSinceOpen + CountType(s.emitted, "reconnect")
    /\ openAge' = IF reset THEN 0 ELSE IF op = "tick" THEN 1 ELSE openAge
    /\ hbCount' =
          IF reset \/ op = "tick" THEN 0
          ELSE IF op = "heartbeat" /\ hbCount + Len(s.sent) <= 2
               THEN hbCount + Len(s.sent)
          ELSE IF op = "heartbeat" THEN 2 ELSE hbCount
    /\ UNCHANGED <<supplied, options, urlValid>>

\* ------------------------------------------------------------------ Init
\* the option fields of SaoKitOptions
Fields ==
    {"autoReconnect", "reconnectInterval", "maxReconnectAttempts",
     "heartbeat", "heartbeatInterval", "heartbeatMessage", "timeout"}

\* the defaults the constructor spreads first
Defaults ==
    [autoReconnect |-> TRUE, reconnectInterval |-> 5000,
     maxReconnectAttempts |-> 0, heartbeat |-> FALSE,
     heartbeatInterval |-> 30000, heartbeatMessage |-> "ping",
     timeout |-> 5000]

MergeDefaultsWin(o) ==
    [f \in Fields \cup DOMAIN o |-> IF f \in Fields THEN Defaults[f] ELSE o[f]]

\* this.options = { ...defaults, ...options }: every own field of the
\* caller's record overrides the default of that name.
Merge(o) ==
    [f \in Fields \cup DOMAIN o |-> IF f \in DOMAIN o THEN o[f] ELSE Defaults[f]]

\* The option records explored with the connection: the caller supplies
\* the fields the handlers branch on and leaves the others to their default.
Options ==
    [autoReconnect : BOOLEAN,
     maxReconnectAttempts : 0..MaxAttempts,
     heartbeat : BOOLEAN,
     heartbeatInterval : 0..1,
     heartbeatMessage : HeartbeatMessages]

\* what is left of a new manager besides its options
Constructed ==
    /\ ws = 0
    /\ sockets = [i \in SocketIds |-> Absent]
    /\ listeners = [k \in Kinds |-> <<>>]
    /\ reconnectAttempts = 0
    /\ heartbeatTimer = 0
    /\ isManualClose = FALSE
    /\ hbTimers = [k \in SocketIds |-> "none"]
    /\ timeouts = <<>>
    /\ reconnectTimers = 0
    /\ emitted = <<>>
    /\ invoked = <<>>
    /\ sent = <<>>
    /\ last = [op |-> "init", id |-> 0, result |-> "ok", arg |-> <<>>]
    /\ reconnectsSinceOpen = 0
    /\ openAge = 0
    /\ hbCount = 0

Init ==
    /\ supplied \in Options
    /\ options = Merge(supplied)
    /\ urlValid \in BOOLEAN
    /\ Constructed

\* --------------------------------------------------------- caller actions
ConnectResetsAttempts ==
    /\ urlValid => HasFree(Cur)
    /\ Commit([ConnectBody(Cur) EXCEPT !.reconnectAttempts = 0], "connect",
              IF urlValid THEN FreeSlot(Cur) ELSE 0)

\* the caller calls connect()
Connect ==
    /\ urlValid => HasFree(Cur)
    /\ Commit(ConnectBody(Cur), "connect",
              IF urlValid THEN FreeSlot(Cur) ELSE 0)

\* the caller calls close()
Close ==
    Commit(CloseBody(Cur), "close", ws)

\* the caller calls send(data)
Send(data) ==
    Commit(SendBody(Cur, data), "send", ws)

\* number of listener registrations held
Registrations(ls) == Cardinality({kn \in Kinds \X (1..MaxListeners) :
                                     kn[2] <= Len(ls[kn[1]])})

\* the caller calls on(kind, cb)
On(kind, cb) ==
    /\ Registrations(listeners) < MaxListeners
    /\ Commit([OnBody(Cur, kind, cb) EXCEPT !.arg = <<kind, cb>>], "on", 0)

\* the caller calls remove(kind, cb)
Remove(kind, cb) ==
    Commit([RemoveBody(Cur, kind, cb) EXCEPT !.arg = <<kind, cb>>], "remove", 0)

\* ------------------------------------------------ transport notifications
Live(i) == ~sockets[i].closeDelivered

TransportOpen(i) ==
    /\ Live(i)
    /\ sockets[i].readyState = "CONNECTING"
    /\ LET s0 == [Cur EXCEPT !.sockets[i].readyState = "OPEN",
                             !.sockets[i].opened = TRUE]
       IN Commit(OnOpen(s0, i), "open", i)

TransportMessage(i) ==
    /\ Live(i)
    /\ sockets[i].readyState \in {"OPEN", "CLOSING"}
    /\ sockets[i].opened
    /\ Commit(OnMessage(Cur, i), "message", i)

\* An error notification from a transport that leaves its readiness alone
\* (as the mock transport of the tests does).
TransportError(i) ==
    /\ Live(i)
    /\ Commit(OnError(Cur, i), "error", i)

\* whether the close handler would schedule a reconnection now
WillReconnect ==
    /\ ~isManualClose
    /\ options.autoReconnect
    /\ \/ options.maxReconnectAttempts = 0
       \/ reconnectAttempts < options.maxReconnectAttempts

\* The environment delivers a close notification that schedules a
\* reconnection only while the explored counts are below their bound.
CloseInBounds ==
    WillReconnect =>
        reconnectAttempts < MaxReconnects /\ reconnectTimers < MaxReconnects

TransportClose(i) ==
    /\ Live(i)
    /\ CloseInBounds
    /\ LET s0 == [Cur EXCEPT !.sockets[i].readyState = "CLOSED",
                             !.sockets[i].closeDelivered = TRUE]
       IN Commit(OnClose(s0, i), "closed", i)

\* A failing transport (as a browser reports it): the handle is closed,
\* and its error notification is followed at once by its close
\* notification.
TransportFail(i) ==
    /\ Live(i)
    /\ CloseInBounds
    /\ LET s0 == [Cur EXCEPT !.sockets[i].readyState = "CLOSED",
                             !.sockets[i].closeDelivered = TRUE]
       IN Commit(OnClose(OnError(s0, i), i), "failed", i)

\* ----------------------------------------------------------------- timers
\* Connect timeouts all have the delay options.timeout, so they fire in
\* the order the connect() calls armed them.
ConnectTimeoutFires ==
    /\ timeouts # <<>>
    /\ LET i == Head(timeouts)
           s0 == [Cur EXCEPT !.timeouts = Tail(@)]
       IN Commit(TimeoutCallback(s0, i), "timeout", i)

ReconnectTimerDropped ==
    /\ reconnectTimers > 0
    /\ Commit([Cur EXCEPT !.reconnectTimers = @ - 1], "reconnectTimer", 0)

\* the reconnect setTimeout callback: await this.connect(), failure swallowed
ReconnectTimerFires ==
    /\ reconnectTimers > 0
    /\ urlValid => HasFree(Cur)
    /\ LET s0 == [Cur EXCEPT !.reconnectTimers = @ - 1]
       IN Commit(ConnectBody(s0), "reconnectTimer",
                 IF urlValid THEN FreeSlot(Cur) ELSE 0)

HeartbeatFires(k) ==
    /\ hbTimers[k] = "due"
    /\ LET s0 == [Cur EXCEPT !.hbTimers[k] = "armed"]
       IN Commit(HeartbeatCallback(s0, k), "heartbeat", k)

\* one heartbeat period passes; no interval timer is due
Tick ==
    /\ \A k \in SocketIds : hbTimers[k] # "due"
    /\ (\E k \in SocketIds : hbTimers[k] = "armed") \/ IsOpen(sockets, ws)
    /\ LET s0 == [Cur EXCEPT !.hbTimers =
                       [k \in SocketIds |->
                          IF hbTimers[k] = "armed" THEN "due" ELSE hbTimers[k]]]
       IN Commit(s0, "tick", 0)

Next ==
    \/ Connect
    \/ Close
    \/ \E data \in Data : Send(data)
    \/ \E i \in SocketIds : TransportOpen(i)
    \/ \E i \in SocketIds : TransportMessage(i)
    \/ \E i \in SocketIds : TransportError(i)
    \/ \E i \in SocketIds : TransportClose(i)
    \/ \E i \in SocketIds : TransportFail(i)
    \/ ConnectTimeoutFires
    \/ ReconnectTimerFires
    \/ \E k \in SocketIds : HeartbeatFires(k)
    \/ Tick

Spec == Init /\ [][Next]_vars

\* no transport handle is live and no reconnection is pending
Idle ==
    /\ \A i \in SocketIds : sockets[i].closeDelivered
    /\ reconnectTimers = 0

\* the caller calls connect() on an idle manager
IdleConnect == Idle /\ Connect

\* The manager with listeners: a caller that registers and removes
\* listeners around a connection with automatic reconnection, and that
\* calls connect() only when the manager is idle.
ListenerInit ==
    /\ supplied \in {o \in Options : /\ o.autoReconnect
                                     /\ o.maxReconnectAttempts = 0
                                     /\ ~o.heartbeat
                                     /\ o.heartbeatInterval = 0}
    /\ options = Merge(supplied)
    /\ urlValid = TRUE
    /\ Constructed

ListenerNext ==
    \/ \E kind \in Kinds, cb \in Callbacks : On(kind, cb)
    \/ \E kind \in Kinds, cb \in Callbacks : Remove(kind, cb)
    \/ IdleConnect
    \/ Close
    \/ \E i \in SocketIds : TransportOpen(i)
    \/ \E i \in SocketIds : TransportMessage(i)
    \/ \E i \in SocketIds : TransportError(i)
    \/ \E i \in SocketIds : TransportClose(i)
    \/ \E i \in SocketIds : TransportFail(i)
    \/ ConnectTimeoutFires
    \/ ReconnectTimerFires

ListenerSpec == ListenerInit /\ [][ListenerNext]_vars

\* Constructing managers: for every option field the caller either omits
\* it (0), supplies the value that is also its default (1) or supplies
\* another value (2).
OtherValues ==
    [autoReconnect |-> FALSE, reconnectInterval |-> 1000,
     maxReconnectAttempts |-> 3, heartbeat |-> TRUE,
     heartbeatInterval |-> 500, heartbeatMessage |-> "fn",
     timeout |-> 100]

CallerRecord(c) ==
    [f \in {g \in Fields : c[g] # 0} |->
        IF c[f] = 1 THEN Defaults[f] ELSE OtherValues[f]]

\* new SaoKit(url, options)
Construct(c) ==
    /\ supplied' = CallerRecord(c)
    /\ options' = Merge(supplied')
    /\ last' = [op |-> "construct", id |-> 0, result |-> "ok", arg |-> <<>>]
    /\ UNCHANGED <<listeners, urlValid, ws, sockets, reconnectAttempts,
                   heartbeatTimer, isManualClose, hbTimers, timeouts,
                   reconnectTimers, emitted, invoked, sent,
                   reconnectsSinceOpen, openAge, hbCount>>

\* new SaoKit(url): no options record
OptionsInit ==
    /\ supplied = CallerRecord([f \in Fields |-> 0])
    /\ options = Merge(supplied)
    /\ urlValid = TRUE
    /\ Constructed

OptionsNext == \E c \in [Fields -> 0..2] : Construct(c)

OptionsSpec == OptionsInit /\ [][OptionsNext]_vars

\* The retry loop: a caller that calls connect() on an idle manager and
\* never calls close(), with automatic reconnection and no attempt bound.
\* A reconnect timer that is armed fires.
RetryInit ==
    /\ supplied \in {o \in Options : /\ o.autoReconnect
                                     /\ o.maxReconnectAttempts = 0}
    /\ options = Merge(supplied)
    /\ urlValid = TRUE
    /\ Constructed

RetryNext ==
    \/ IdleConnect
    \/ \E data \in Data : Send(data)
    \/ \E i \in SocketIds : TransportOpen(i)
    \/ \E i \in SocketIds : TransportMessage(i)
    \/ \E i \in SocketIds : TransportError(i)
    \/ \E i \in SocketIds : TransportClose(i)
    \/ \E i \in SocketIds : TransportFail(i)
    \/ ConnectTimeoutFires
    \/ ReconnectTimerFires
    \/ \E k \in SocketIds : HeartbeatFires(k)
    \/ Tick

RetrySpec ==
    RetryInit /\ [][RetryNext]_vars /\ WF_vars(ReconnectTimerFires)

TypeOK ==
    /\ ws \in 0..MaxSockets
    /\ \A i \in SocketIds : sockets[i].readyState \in ReadyStates \cup {"NONE"}
    /\ reconnectAttempts \in 0..MaxReconnects
    /\ heartbeatTimer \in 0..MaxSockets
    /\ isManualClose \in BOOLEAN
    /\ reconnectTimers \in 0..MaxReconnects
    /\ openAge \in 0..1
    /\ hbCount \in 0..2

\* ------------------------------------------------------------------ claims
HandleOpen == ws # 0 /\ sockets[ws].readyState = "OPEN"

ManagerVars == <<ws, sockets, reconnectAttempts, heartbeatTimer,
                 isManualClose, hbTimers, timeouts, reconnectTimers,
                 listeners>>

Settled(i) == sockets[i].outcome \in {"resolved", "rejected"}

\* the step created a transport handle
Created == last'.op \in {"connect", "reconnectTimer"} /\ last'.result = "ok"

\* the step delivered the close notification of slot i
ClosedNow(i) == last'.op \in {"closed", "failed"} /\ last'.id = i

Reconnects(evs) == {n \in 1..Len(evs) : evs[n].type = "reconnect"}

\* the close handler would find the attempt bound not reached
UnderBound ==
    \/ options.maxReconnectAttempts = 0
    \/ reconnectAttempts < options.maxReconnectAttempts

\* C1: the outcome of a connect() call settles at most once: once it is
\* resolved or rejected no later open, error, close or timeout of that
\* attempt changes it, and a step reports a settlement only of an
\* outcome that was pending.
C1_SettlesAtMostOnce ==
    [][\A i \in SocketIds :
          /\ Settled(i) =>
                \/ sockets'[i].outcome = sockets[i].outcome
                \/ sockets'[i] = Absent
                \/ Created /\ last'.id = i
          /\ (last'.id = i /\ last'.result \in {"resolved", "error", "timeout"}) =>
                sockets[i].outcome = "pending"]_vars

\* C1 witness: an error notification (alone or followed by close) has
\* arrived for a call whose outcome had already been resolved by open.
C1_Witness ==
    /\ last.op \in {"error", "failed"}
    /\ last.id = ws
    /\ sockets[ws].outcome = "resolved"

\* C2: after the caller's close(), and until the caller calls connect()
\* again, no transport handle is created: a reconnection scheduled before
\* the close() is suppressed.
C2_ManualCloseSuppressesReconnect ==
    [][(isManualClose /\ Created) => last'.op = "connect"]_vars

\* C3: with maxReconnectAttempts = N > 0, reconnectAttempts never exceeds
\* N, at most N Reconnect events are dispatched and at most N reconnect
\* timers are scheduled between two opens, and a close that finds the
\* bound reached dispatches no Reconnect event, arms no timer and
\* creates no handle.
C3_AttemptBound ==
    /\ [](options.maxReconnectAttempts > 0 =>
             /\ reconnectAttempts <= options.maxReconnectAttempts
             /\ reconnectsSinceOpen <= options.maxReconnectAttempts
             /\ \A n \in Reconnects(emitted) :
                   emitted[n].attempts <= options.maxReconnectAttempts)
    /\ [][/\ reconnectTimers' > reconnectTimers =>
                /\ reconnectTimers' = reconnectTimers + 1
                /\ Cardinality(Reconnects(emitted')) = 1
          /\ (/\ options.maxReconnectAttempts > 0
              /\ reconnectAttempts = options.maxReconnectAttempts
              /\ \E i \in SocketIds : ClosedNow(i)) =>
                /\ Reconnects(emitted') = {}
                /\ reconnectTimers' = reconnectTimers
                /\ reconnectAttempts' = reconnectAttempts
                /\ ~Created]_vars

\* C3 witness: an unexpected close found the bound reached and nothing
\* was scheduled.
C3_Witness ==
    /\ last.op \in {"closed", "failed"}
    /\ options.autoReconnect
    /\ ~isManualClose
    /\ options.maxReconnectAttempts > 0
    /\ reconnectAttempts = options.maxReconnectAttempts
    /\ Reconnects(emitted) = {}
    /\ reconnectTimers = 0

\* C4: reconnectAttempts is 0 right after every open notification; a
\* scheduled reconnection attempt increases it by exactly 1 and dispatches
\* one Reconnect event carrying the new value, which is also the number
\* of Reconnect events since the last open; nothing else changes it.
C4_AttemptCounting ==
    [][/\ last'.op = "open" => reconnectAttempts' = 0
       /\ reconnectAttempts' # reconnectAttempts =>
             \/ last'.op = "open" /\ reconnectAttempts' = 0
             \/ /\ last'.op \in {"closed", "failed"}
                /\ reconnectAttempts' = reconnectAttempts + 1
                /\ reconnectTimers' = reconnectTimers + 1
                /\ Cardinality(Reconnects(emitted')) = 1
       /\ \A n \in Reconnects(emitted') :
             /\ last'.op \in {"closed", "failed"}
             /\ emitted'[n].attempts = reconnectAttempts + 1
             /\ emitted'[n].attempts = reconnectAttempts'
             /\ emitted'[n].attempts = reconnectsSinceOpen']_vars

\* C4 witness: a second consecutive reconnection attempt was announced.
C4_Witness ==
    /\ \E n \in Reconnects(emitted) : emitted[n].attempts = 2
    /\ reconnectAttempts = 2

\* C5: when a transport that had opened closes without close() by the
\* caller, autoReconnect is on and the bound is not reached, one Reconnect
\* event with attempts = 1 is dispatched and one reconnect timer is armed
\* in that step, no handle is created by it, and the handle a reconnect
\* timer creates is created when the timer fires, one per timer.
C5_ReconnectAfterUnexpectedClose ==
    [][/\ \A i \in SocketIds :
             (/\ ClosedNow(i)
              /\ sockets[i].opened
              /\ ~sockets[i].manual
              /\ ~isManualClose
              /\ options.autoReconnect
              /\ UnderBound) =>
                /\ Cardinality(Reconnects(emitted')) = 1
                /\ \A n \in Reconnects(emitted') : emitted'[n].attempts = 1
                /\ reconnectTimers' = reconnectTimers + 1
                /\ ~Created
       /\ last'.op = "reconnectTimer" =>
             /\ reconnectTimers > 0
             /\ reconnectTimers' = reconnectTimers - 1]_vars

\* C6: the close notification of a handle on which the caller called
\* close() never invokes the reconnection scheduler: no Reconnect event
\* and no reconnect timer.
C6_ManualCloseNeverReconnects ==
    [][\A i \in SocketIds :
          (ClosedNow(i) /\ sockets[i].manual) =>
             /\ Reconnects(emitted') = {}
             /\ reconnectTimers' = reconnectTimers
             /\ reconnectAttempts' = reconnectAttempts]_vars

\* C7: every connect() call settles its outcome: once the transport of
\* the attempt has delivered its close notification, after which no
\* notification and no timer of that attempt is left to run, the outcome
\* is resolved or rejected.
C7_ClosedAttemptHasSettled ==
    \A i \in SocketIds :
        (sockets[i].readyState # "NONE" /\ sockets[i].closeDelivered) =>
            /\ ~InSeq(timeouts, i)
            /\ sockets[i].outcome # "pending"

\* C8: send(payload) hands the payload to the transport if and only if a
\* transport handle exists and its readiness is exactly OPEN; in every
\* other state it fails with the not-connected error, nothing reaches the
\* transport and the manager state is unchanged.
C8_SendIffOpen ==
    [][last'.op = "send" =>
         /\ HandleOpen <=> (last'.result = "sent")
         /\ last'.result = "sent" =>
               /\ Len(sent') = 1 /\ sent'[1].to = ws /\ sent'[1].data \in Data
               /\ UNCHANGED ManagerVars
         /\ ~HandleOpen =>
               /\ last'.result = "NotConnected"
               /\ sent' = <<>>
               /\ emitted' = <<>>
               /\ UNCHANGED ManagerVars]_vars

\* C8 witness: a send was refused while a handle exists that is not OPEN.
C8_Witness ==
    /\ last.op = "send"
    /\ last.result = "NotConnected"
    /\ ws # 0
    /\ sockets[ws].readyState \in {"CONNECTING", "CLOSING", "CLOSED"}

\* C9: a heartbeat payload is only ever sent to a transport that has
\* delivered its open notification, has not delivered its close
\* notification and on which the caller has not called close().
C9_HeartbeatOnlyWhileOpen ==
    last.op = "heartbeat" =>
        \A n \in 1..Len(sent) :
            /\ sockets[sent[n].to].opened
            /\ ~sockets[sent[n].to].closeDelivered
            /\ ~sockets[sent[n].to].manual

\* C9 witness: a heartbeat was sent while another heartbeat timer, left
\* over from an earlier open, is armed as well.
C9_Witness ==
    /\ last.op = "heartbeat"
    /\ Len(sent) = 1
    /\ \E k \in SocketIds : k # last.id /\ hbTimers[k] # "none"

\* C10: while this.ws stays open with heartbeatInterval > 0, exactly one
\* heartbeat is sent in every elapsed period, and it carries the
\* configured payload.
C10_OneHeartbeatPerPeriod ==
    /\ [][(/\ last'.op = "tick"
           /\ options.heartbeatInterval > 0
           /\ HandleOpen
           /\ openAge = 1) => hbCount = 1]_vars
    /\ [](last.op = "heartbeat" =>
             \A n \in 1..Len(sent) : sent[n].data = options.heartbeatMessage)

\* C11: while the heartbeat option is false no heartbeat interval timer
\* is armed and no heartbeat payload is sent, whatever heartbeatInterval is.
C11_HeartbeatOptionOff ==
    ~options.heartbeat =>
        /\ heartbeatTimer = 0
        /\ \A k \in SocketIds : hbTimers[k] = "none"
        /\ last.op # "heartbeat"

\* the kinds dispatched by the step, and the invocations it made for kind
Dispatched == {emitted'[n].type : n \in 1..Len(emitted')}

InvokedFor(kind) == SelectSeq(invoked', LAMBDA e : e.kind = kind)

\* the invocations a complete dispatch of kind makes
Registered(kind) ==
    [n \in 1..Len(listeners[kind]) |-> [kind |-> kind, cb |-> listeners[kind][n]]]

\* C12: when a dispatched kind has a listener that throws, every listener
\* registered after it for that kind is still invoked in that dispatch:
\* the dispatch makes as many invocations as the kind has registrations.
C12_ThrowDoesNotStopDispatch ==
    [][\A kind \in Dispatched :
          FirstThrower(listeners[kind]) # 0 =>
              Len(InvokedFor(kind)) = Len(listeners[kind])]_vars

\* C13: a listener that throws does not change what the manager does
\* next: an open notification of a pending call resolves its outcome, an
\* unexpected close with automatic reconnection invokes the scheduler
\* (a Reconnect event is dispatched while the bound is not reached), and
\* a dispatched Reconnect event is followed by arming the delayed connect().
C13_ThrowDoesNotChangeManager ==
    [][/\ \A i \in SocketIds :
             (last'.op = "open" /\ last'.id = i
                 /\ sockets[i].outcome = "pending") =>
                 sockets'[i].outcome = "resolved"
       /\ (/\ \E i \in SocketIds : ClosedNow(i)
           /\ ~isManualClose
           /\ options.autoReconnect
           /\ UnderBound) => Reconnects(emitted') # {}
       /\ Reconnects(emitted') # {} =>
             /\ reconnectAttempts' = reconnectAttempts + 1
             /\ reconnectTimers' = reconnectTimers + 1]_vars

\* C14: after remove(kind, cb) the registry holds no registration of cb
\* for kind, so that no later dispatch of kind invokes it (a dispatch
\* invokes registered listeners only); and a dispatch of a kind without
\* listeners invokes nothing and raises no error.
C14_RemovedListenerNotInvoked ==
    [][/\ last'.op = "remove" =>
             ~InSeq(listeners'[last'.arg[1]], last'.arg[2])
       /\ \A n \in 1..Len(invoked') :
             InSeq(listeners[invoked'[n].kind], invoked'[n].cb)
       /\ (\A kind \in Dispatched : listeners[kind] = <<>>) =>
             invoked' = <<>> /\ last'.result # "threw"]_vars

\* C15: a dispatch of a kind invokes exactly the listeners registered for
\* that kind, once per registration and in registration order; a kind
\* that is not dispatched has no listener invoked.
C15_DispatchInRegistrationOrder ==
    [][\A kind \in Kinds :
          InvokedFor(kind) =
              IF kind \in Dispatched THEN Registered(kind) ELSE <<>>]_vars

\* the defaults as documented
DocumentedDefaults ==
    [autoReconnect |-> TRUE, reconnectInterval |-> 5000,
     maxReconnectAttempts |-> 0, heartbeat |-> FALSE,
     heartbeatInterval |-> 30000, heartbeatMessage |-> "ping",
     timeout |-> 5000]

\* C16: the merged configuration has the seven option fields, and each
\* equals the caller's value if the caller supplied that field and the
\* documented default otherwise, whatever the other fields are.
C16_OptionsMerge ==
    /\ Fields \subseteq DOMAIN options
    /\ \A f \in Fields :
          options[f] = IF f \in DOMAIN supplied THEN supplied[f]
                       ELSE DocumentedDefaults[f]

\* C16 witness: a manager constructed with one field set to a value that
\* is not its default while its siblings were omitted.
C16_Witness ==
    /\ last.op = "construct"
    /\ DOMAIN supplied = {"heartbeat"}
    /\ options.heartbeat = TRUE
    /\ options.heartbeatInterval = 30000
    /\ options.autoReconnect = TRUE

\* C17: with autoReconnect = false the reconnection scheduler is never
\* invoked: no Reconnect event is dispatched, reconnectAttempts stays 0,
\* no reconnect timer is armed, and transport handles are created by the
\* caller's connect() only.
C17_NoReconnectWhenDisabled ==
    ~options.autoReconnect =>
        /\ Reconnects(emitted) = {}
        /\ reconnectAttempts = 0
        /\ reconnectTimers = 0
        /\ reconnectsSinceOpen = 0
        /\ last.op # "reconnectTimer"

\* C17 witness: with autoReconnect = false a transport that had opened
\* closed although the caller had not called close().
C17_Witness ==
    /\ ~options.autoReconnect
    /\ last.op \in {"closed", "failed"}
    /\ ~isManualClose
    /\ sockets[last.id].opened
    /\ emitted # <<>>

\* C18: at every moment at most one transport handle has not yet
\* delivered its close notification (the handlers of such a handle can
\* still change the manager).
C18_OneLiveHandle ==
    Cardinality({i \in SocketIds : Live(i)}) <= 1

\* the step ran the connect-timeout callback of the connect() call of slot i
TimedOut(i) == last'.op = "timeout" /\ last'.id = i

\* C19: the connect-timeout of an attempt is armed only while that
\* attempt's transport has neither opened, closed nor errored; when it
\* expires (and the caller has not called close() on that transport) the
\* manager closes that attempt's transport, and no other, and rejects
\* that attempt's outcome with the timeout error.
C19_TimeoutFailsItsOwnAttempt ==
    /\ [](\A i \in SocketIds :
             InSeq(timeouts, i) =>
                 /\ ~sockets[i].opened
                 /\ ~sockets[i].closeDelivered
                 /\ sockets[i].outcome = "pending")
    /\ [][\A i \in SocketIds :
             (TimedOut(i) /\ ~sockets[i].manual) =>
                 /\ sockets'[i].readyState = "CLOSING"
                 /\ sockets'[i].outcome = "rejected"
                 /\ last'.result = "timeout"
                 /\ \A j \in SocketIds \ {i} :
                       sockets'[j].readyState = sockets[j].readyState]_vars

\* C20: once the caller has called close() on the transport of a pending
\* connect attempt, the connect-timeout of that attempt never runs its
\* failure branch: when it expires it closes no transport and rejects no
\* outcome.
C20_NoTimeoutFailureAfterClose ==
    [][\A i \in SocketIds :
          (TimedOut(i) /\ sockets[i].manual) =>
              /\ last'.result = "ignored"
              /\ \A j \in SocketIds :
                    /\ sockets'[j].readyState = sockets[j].readyState
                    /\ sockets'[j].outcome = sockets[j].outcome]_vars

\* some heartbeat interval timer is armed
HeartbeatArmed == \E k \in SocketIds : hbTimers[k] # "none"

\* C21: right after a close notification or an error notification of the
\* transport this.ws refers to, and right after the caller's close(), no
\* heartbeat interval timer is armed.
C21_HeartbeatStoppedOnCloseAndError ==
    (\/ last.op = "close"
     \/ last.op \in {"closed", "error", "failed"} /\ last.id = ws)
        => (~HeartbeatArmed /\ heartbeatTimer = 0)

\* C22: the recorded heartbeat timer handle is present exactly when a
\* heartbeat interval timer is armed, the armed timer is the recorded one,
\* and at most one heartbeat interval timer is armed.
C22_OneRecordedHeartbeatTimer ==
    /\ heartbeatTimer # 0 <=> HeartbeatArmed
    /\ \A k \in SocketIds : hbTimers[k] # "none" => k = heartbeatTimer

C24_MessageOnlyDispatches ==
    [][last'.op = "message" =>
          /\ emitted' = <<Event("message", 0)>>
          /\ sent' = <<>>
          /\ last'.result = "ok"
          /\ UNCHANGED ManagerVars]_vars

\* C24 witness: a message arrived on a handle while the connect timeout
\* of another attempt was armed and reconnection attempts had been counted.
C24_Witness ==
    /\ last.op = "message"
    /\ timeouts # <<>>
    /\ reconnectAttempts > 0

\* C25: when constructing the transport handle fails inside connect(),
\* the call rejects its outcome before it returns; it arms no connect
\* timeout, dispatches no event, schedules no reconnection and leaves
\* every field of the manager as it was.
C25_ConstructionFailure ==
    [][(last'.op \in {"connect", "reconnectTimer"} /\ ~urlValid) =>
          /\ last'.result = "construction"
          /\ emitted' = <<>>
          /\ timeouts' = timeouts
          /\ reconnectTimers' <= reconnectTimers
          /\ UNCHANGED <<ws, sockets, reconnectAttempts, heartbeatTimer,
                         isManualClose, hbTimers, listeners>>]_vars

\* C25 witness: connect() failed to construct its transport handle after
\* the caller had called close().
C25_Witness ==
    /\ last.op = "connect"
    /\ last.result = "construction"
    /\ isManualClose
    /\ timeouts = <<>>

\* C26: the connect-timeout callback of one connect() call changes the
\* readiness of no transport handle but the one that call created, and
\* rejects its outcome only when that handle is still connecting.
C26_TimeoutTouchesOwnHandleOnly ==
    [][\A i \in SocketIds :
          TimedOut(i) =>
              /\ \A j \in SocketIds \ {i} :
                    sockets'[j].readyState = sockets[j].readyState
              /\ last'.result = "timeout" =>
                    sockets[i].readyState = "CONNECTING"]_vars

\* C27: at most one delayed reconnection is pending at any time.
C27_OnePendingReconnect ==
    reconnectTimers <= 1

\* C28: once reconnectAttempts has reached maxReconnectAttempts = N > 0
\* only an open notification changes it: a caller's connect() leaves it
\* at N, and no step dispatches a Reconnect event or arms a reconnect
\* timer until a transport has opened.
C28_GiveUpLastsUntilOpen ==
    [][(options.maxReconnectAttempts > 0
            /\ reconnectAttempts = options.maxReconnectAttempts) =>
          /\ \/ reconnectAttempts' = reconnectAttempts
             \/ last'.op = "open" /\ reconnectAttempts' = 0
          /\ last'.op = "connect" => reconnectAttempts' = reconnectAttempts
          /\ Reconnects(emitted') = {}
          /\ reconnectTimers' <= reconnectTimers]_vars

\* C28 witness: after the scheduler had given up (counter at N, no timer
\* pending, no handle live), the caller's connect() created a handle and
\* the counter is still N.
C28_Witness ==
    /\ last.op = "connect"
    /\ last.result = "ok"
    /\ options.autoReconnect
    /\ options.maxReconnectAttempts > 0
    /\ reconnectAttempts = options.maxReconnectAttempts
    /\ reconnectTimers = 0
    /\ \A i \in SocketIds \ {ws} : sockets[i].closeDelivered

====
